---- MODULE Spec2Model ----
(***************************************************************************)
(* Conway's Game of Life, dense bounded grid with copy / cut / paste:      *)
(* a model of src/Game-of-Life/Game-of-Life.cpp.                           *)
(*                                                                         *)
(* The grid is the flat vector of the source: cell (x, y) lives at index   *)
(* y * gridWidth + x and holds 0 (dead) or 1 (alive).  The engine's        *)
(* functions are operators that compute as the source computes (loops are  *)
(* recursions in the source's iteration order); the frame loop of main()   *)
(* is one action per section of the loop body, in the source's order.      *)
(***************************************************************************)
EXTENDS Integers, Sequences, FiniteSets, TLC

VARIABLES
    gridWidth, gridHeight,      \* int gridWidth, gridHeight
    grid, nextGrid,             \* std::vector<uint8_t> grid, nextGrid
    running, stepOnce,          \* bool running, stepOnce
    speed,                      \* float speed (generations per second)
    accumulator,                \* float accumulator (main), in ticks
    editMode,                   \* EditMode editMode
    selX0, selY0, selX1, selY1, \* selection corners
    clipboard,                  \* std::vector<std::pair<int,int>> clipboard
    pc,                         \* position in the frame loop / harness
    lastOp,                     \* history: the last engine call (in the frame
                                \*   loop: of the current frame), its arguments
    pre,                        \* history: the engine state before the last
                                \*   call made by an engine specification
    orig,                       \* history: the grid a scenario started from
    gen,                        \* history: engine calls made since orig
    frame                       \* history: what the current frame has done so far

engineVars == <<gridWidth, gridHeight, grid, nextGrid>>
simVars    == <<running, stepOnce, speed, accumulator>>
selVars    == <<selX0, selY0, selX1, selY1>>
vars == <<gridWidth, gridHeight, grid, nextGrid, running, stepOnce, speed,
          accumulator, editMode, selX0, selY0, selX1, selY1, clipboard, pc,
          lastOp, pre, orig, gen, frame>>

(***************************************************************************)
(* Bounds of the model.                                                    *)
(***************************************************************************)
\* Largest grid of the engine specifications (the program runs 100 x 100).
MaxW == 3
MaxH == 3
\* Largest grid of the pattern specification, and the generations it runs.
MaxPatW == 5
MaxPatH == 5
MaxGen  == 3
\* Largest grid of the resize and clipboard specifications.
SmallW == 3
SmallH == 2
\* The frame loop: grid size (of the simulation specification and of the
\* selection specification), pixels per cell, ticks per second (the unit
\* of dt and accumulator), the largest dt of one frame and the accumulated
\* time up to which the model follows the loop.
SimW == 2
SimH == 1
LoopW == 2
LoopH == 2
CellSize == 2
TicksPerSecond == 20
MaxDt  == 2
MaxAcc == 5

(***************************************************************************)
(* Game rules (lines 15-23).                                               *)
(***************************************************************************)
RULE_BIRTH    == <<3>>
RULE_SURVIVAL_Only3 == <<3>>
RULE_SURVIVAL == <<2, 3>>

\* std::find(v.begin(), v.end(), x) != v.end()
contains(v, x) == \E i \in 1..Len(v) : v[i] = x

(***************************************************************************)
(* Grids.                                                                  *)
(***************************************************************************)
Cells(w, h)   == 0..(w * h - 1)
DeadGrid(w, h) == [i \in Cells(w, h) |-> 0]
AllGrids(w, h) == [Cells(w, h) -> {0, 1}]

\* resizeGrid(w, h): both vectors are assigned w*h zeros.
resizeGridKeep(g, ng, gw, gh, w, h) ==
    \* as std::vector::resize would: the flat prefix is kept, the rest zeroed
    [gridWidth  |-> w,
     gridHeight |-> h,
     grid       |-> [i \in Cells(w, h) |-> IF i \in DOMAIN g THEN g[i] ELSE 0],
     nextGrid   |-> [i \in Cells(w, h) |-> IF i \in DOMAIN ng THEN ng[i] ELSE 0]]

resizeGrid(g, ng, gw, gh, w, h) ==
    [gridWidth  |-> w,
     gridHeight |-> h,
     grid       |-> DeadGrid(w, h),
     nextGrid   |-> DeadGrid(w, h)]

\* int countNeighbors(int x, int y), the bounded version that is compiled.
\* c[k] is the count after k iterations of the double loop; iteration k - 1
\* has dy = (k-1) \div 3 - 1 (outer loop) and dx = (k-1) % 3 - 1 (inner).
countNeighborsSelf(g, gw, gh, x, y) ==
    \* the loop without "if (dx == 0 && dy == 0) continue"
    LET c[k \in 0..9] ==
            IF k = 0 THEN 0
            ELSE LET nx == x + ((k - 1) % 3) - 1
                     ny == y + ((k - 1) \div 3) - 1
                 IN  IF nx >= 0 /\ nx < gw /\ ny >= 0 /\ ny < gh
                     THEN c[k - 1] + g[ny * gw + nx]
                     ELSE c[k - 1]
    IN  c[9]

countNeighbors(g, gw, gh, x, y) ==
    LET c[k \in 0..9] ==
            IF k = 0 THEN 0
            ELSE LET dy == ((k - 1) \div 3) - 1
                     dx == ((k - 1) % 3) - 1
                     nx == x + dx
                     ny == y + dy
                 IN  IF dx = 0 /\ dy = 0
                     THEN c[k - 1]
                     ELSE IF nx >= 0 /\ nx < gw /\ ny >= 0 /\ ny < gh
                          THEN c[k - 1] + g[ny * gw + nx]
                          ELSE c[k - 1]
    IN  c[9]

\* The wrap-around countNeighbors (lines 48-65, commented out in the source).
countNeighborsWrap(g, gw, gh, x, y) ==
    LET c[k \in 0..9] ==
            IF k = 0 THEN 0
            ELSE LET dy == ((k - 1) \div 3) - 1
                     dx == ((k - 1) % 3) - 1
                     nx == (x + dx + gw) % gw
                     ny == (y + dy + gh) % gh
                 IN  IF dx = 0 /\ dy = 0
                     THEN c[k - 1]
                     ELSE c[k - 1] + g[ny * gw + nx]
    IN  c[9]

\* The right-hand side of line 94 for a cell holding `alive` with n neighbours.
nextState(alive, n) ==
    IF alive # 0
    THEN (IF contains(RULE_SURVIVAL, n) THEN 1 ELSE 0)
    ELSE (IF contains(RULE_BIRTH, n) THEN 1 ELSE 0)

\* updateGrid writing into the vector it reads: buf[i] is grid after i
\* iterations, and iteration i-1 counts neighbours in that same vector b.
updateGridInPlace(g, ng, gw, gh) ==
    LET buf[i \in 0..(gw * gh)] ==
            IF i = 0 THEN g
            ELSE LET y   == (i - 1) \div gw
                     x   == (i - 1) % gw
                     idx == y * gw + x
                 IN  CHOOSE v \in
                         {[b EXCEPT ![idx] =
                              nextState(b[idx], countNeighbors(b, gw, gh, x, y))] :
                          b \in {buf[i - 1]}} : TRUE
    IN  [grid |-> buf[gw * gh], nextGrid |-> ng]

\* void updateGrid(): the double loop (y outer, x inner) reads grid and
\* writes nextGrid, then grid.swap(nextGrid).  scratch[i] is nextGrid after i
\* iterations; iteration i - 1 handles y = (i-1) \div gridWidth and
\* x = (i-1) % gridWidth.
updateGrid(g, ng, gw, gh) ==
    LET scratch[i \in 0..(gw * gh)] ==
            IF i = 0 THEN ng
            ELSE LET y   == (i - 1) \div gw
                     x   == (i - 1) % gw
                     idx == y * gw + x
                     n   == countNeighbors(g, gw, gh, x, y)
                 IN  [scratch[i - 1] EXCEPT ![idx] = nextState(g[idx], n)]
    IN  [grid |-> scratch[gw * gh], nextGrid |-> g]

\* updateGrid compiled with the wrap-around countNeighbors instead.
updateGridWrap(g, ng, gw, gh) ==
    LET scratch[i \in 0..(gw * gh)] ==
            IF i = 0 THEN ng
            ELSE LET y   == (i - 1) \div gw
                     x   == (i - 1) % gw
                     idx == y * gw + x
                     n   == countNeighborsWrap(g, gw, gh, x, y)
                 IN  [scratch[i - 1] EXCEPT ![idx] = nextState(g[idx], n)]
    IN  [grid |-> scratch[gw * gh], nextGrid |-> g]

\* void resetGrid(): std::fill(grid.begin(), grid.end(), 0)
resetGrid(g) == [i \in DOMAIN g |-> 0]

(***************************************************************************)
(* Selection and clipboard (lines 144-181).  A clipboard entry is the pair *)
(* <<first, second>> = <<x - selX0, y - selY0>>.                           *)
(***************************************************************************)
\* The cells the loops "for y = y0..y1, for x = x0..x1" visit, in order:
\* position i (from 0) is <<x, y>>.  Empty when x1 < x0 or y1 < y0.
RectW(x0, x1) == IF x1 >= x0 THEN x1 - x0 + 1 ELSE 0
RectH(y0, y1) == IF y1 >= y0 THEN y1 - y0 + 1 ELSE 0
RectLen(x0, y0, x1, y1) == RectW(x0, x1) * RectH(y0, y1)
RectCell(x0, y0, x1, y1, i) ==
    <<x0 + (i % RectW(x0, x1)), y0 + (i \div RectW(x0, x1))>>

\* copySelection storing the cell's own coordinates instead of the offsets.
copySelectionAbsolute(g, gw, x0, y0, x1, y1) ==
    LET clip[i \in 0..RectLen(x0, y0, x1, y1)] ==
            IF i = 0 THEN <<>>
            ELSE LET c == RectCell(x0, y0, x1, y1, i - 1)
                 IN  IF g[c[2] * gw + c[1]] # 0
                     THEN Append(clip[i - 1], <<c[1], c[2]>>)
                     ELSE clip[i - 1]
    IN  clip[RectLen(x0, y0, x1, y1)]

\* void copySelection(): clipboard.clear(), then the double loop; clip[i] is
\* the clipboard after i iterations.
copySelection(g, gw, x0, y0, x1, y1) ==
    LET clip[i \in 0..RectLen(x0, y0, x1, y1)] ==
            IF i = 0 THEN <<>>
            ELSE LET c == RectCell(x0, y0, x1, y1, i - 1)
                 IN  IF g[c[2] * gw + c[1]] # 0
                     THEN Append(clip[i - 1], <<c[1] - x0, c[2] - y0>>)
                     ELSE clip[i - 1]
    IN  clip[RectLen(x0, y0, x1, y1)]

\* void cutSelection(): copySelection(), then the double loop that clears;
\* cleared[i] is grid after i iterations.
cutSelection(g, gw, x0, y0, x1, y1) ==
    LET cleared[i \in 0..RectLen(x0, y0, x1, y1)] ==
            IF i = 0 THEN g
            ELSE LET c == RectCell(x0, y0, x1, y1, i - 1)
                 IN  [cleared[i - 1] EXCEPT ![c[2] * gw + c[1]] = 0]
    IN  [clipboard |-> copySelection(g, gw, x0, y0, x1, y1),
         grid      |-> cleared[RectLen(x0, y0, x1, y1)]]

\* pasteClipboard without the bounds test of line 175: an index inside the
\* vector is written wherever it lands, one outside it is dropped.
pasteClipboardUnchecked(g, gw, gh, clip, tx, ty) ==
    LET pasted[k \in 0..Len(clip)] ==
            IF k = 0 THEN g
            ELSE LET x == tx + clip[k][1]
                     y == ty + clip[k][2]
                 IN  IF y * gw + x \in DOMAIN g
                     THEN [pasted[k - 1] EXCEPT ![y * gw + x] = 1]
                     ELSE pasted[k - 1]
    IN  [grid |-> pasted[Len(clip)], editMode |-> "None"]

\* void pasteClipboard(int tx, int ty): pasted[k] is grid after the first k
\* clipboard entries; then editMode = EditMode::None.
pasteClipboard(g, gw, gh, clip, tx, ty) ==
    LET pasted[k \in 0..Len(clip)] ==
            IF k = 0 THEN g
            ELSE LET x == tx + clip[k][1]
                     y == ty + clip[k][2]
                 IN  IF x >= 0 /\ x < gw /\ y >= 0 /\ y < gh
                     THEN [pasted[k - 1] EXCEPT ![y * gw + x] = 1]
                     ELSE pasted[k - 1]
    IN  [grid |-> pasted[Len(clip)], editMode |-> "None"]

(***************************************************************************)
(* The frame loop of main() (lines 214-363).  Time is counted in ticks of  *)
(* 1 / TicksPerSecond seconds, so "accumulator >= 1.0f / speed" is         *)
(* accumulator * speed >= TicksPerSecond.                                  *)
(***************************************************************************)
\* int(v / cs): the conversion to int truncates toward zero.
TruncDiv(a, b) == IF a >= 0 THEN a \div b ELSE -((-a) \div b)

\* bool mouseToCell(mx, my, cx, cy, cs)
mouseToCell(mx, my, cs, gw, gh) ==
    LET cx == TruncDiv(mx, cs)
        cy == TruncDiv(my, cs)
    IN  [cx |-> cx, cy |-> cy,
         inGrid |-> cx >= 0 /\ cx < gw /\ cy >= 0 /\ cy < gh]

\* accumulator >= 1.0f / speed
GenerationDue(acc, spd) == acc * spd >= TicksPerSecond

\* "Simulation update" with the Step request honoured only while running.
simulationUpdateRunningOnly(g, ng, gw, gh, run, step, acc, spd) ==
    IF run /\ (GenerationDue(acc, spd) \/ step)
    THEN LET r == updateGrid(g, ng, gw, gh)
         IN  [grid |-> r.grid, nextGrid |-> r.nextGrid, accumulator |-> 0,
              stepOnce |-> FALSE, updates |-> 1]
    ELSE [grid |-> g, nextGrid |-> ng, accumulator |-> acc,
          stepOnce |-> step, updates |-> 0]

\* "Simulation update" that catches up: one generation per elapsed period,
\* the remainder kept in the accumulator.
simulationUpdateCatchUp(g, ng, gw, gh, run, step, acc, spd) ==
    IF (run /\ GenerationDue(acc, spd)) \/ step
    THEN LET n == IF run /\ GenerationDue(acc, spd)
                  THEN (acc * spd) \div TicksPerSecond ELSE 1
             gens[i \in 0..n] ==
                 IF i = 0 THEN [grid |-> g, nextGrid |-> ng]
                 ELSE CHOOSE v \in {updateGrid(b.grid, b.nextGrid, gw, gh) :
                                    b \in {gens[i - 1]}} : TRUE
         IN  [grid |-> gens[n].grid, nextGrid |-> gens[n].nextGrid,
              accumulator |-> IF run /\ GenerationDue(acc, spd)
                              THEN acc - (n * TicksPerSecond) \div spd ELSE 0,
              stepOnce |-> FALSE, updates |-> n]
    ELSE [grid |-> g, nextGrid |-> ng, accumulator |-> acc,
          stepOnce |-> step, updates |-> 0]

\* Lines 326-330: if ((running && accumulator >= 1.0f/speed) || stepOnce)
\* { updateGrid(); accumulator = 0; stepOnce = false; }
\* `updates` is the number of updateGrid calls made.
simulationUpdate(g, ng, gw, gh, run, step, acc, spd) ==
    IF (run /\ GenerationDue(acc, spd)) \/ step
    THEN LET r == updateGrid(g, ng, gw, gh)
         IN  [grid |-> r.grid, nextGrid |-> r.nextGrid, accumulator |-> 0,
              stepOnce |-> FALSE, updates |-> 1]
    ELSE [grid |-> g, nextGrid |-> ng, accumulator |-> acc,
          stepOnce |-> step, updates |-> 0]

\* The indices copySelection reads and cutSelection reads and writes.
SelectionIndices(gw, x0, y0, x1, y1) ==
    {RectCell(x0, y0, x1, y1, i)[2] * gw + RectCell(x0, y0, x1, y1, i)[1] :
        i \in 0..(RectLen(x0, y0, x1, y1) - 1)}

(***************************************************************************)
(* History variables.                                                      *)
(***************************************************************************)
Snapshot == [grid |-> grid, gridWidth |-> gridWidth, gridHeight |-> gridHeight,
             clipboard |-> clipboard]
NoFrame  == [updates |-> 0, stepReq |-> FALSE, runAtReq |-> FALSE, accAtSim |-> 0]

\* float speed = 10.0f
InitSpeed == 10

\* The state main() holds after construction, for a w x h grid holding g.
ProgramStart(w, h, g) ==
    /\ gridWidth = w /\ gridHeight = h
    /\ grid = g /\ nextGrid = DeadGrid(w, h)
    /\ running = FALSE /\ stepOnce = FALSE
    /\ speed = InitSpeed /\ accumulator = 0
    /\ editMode = "None"
    /\ selX0 = -1 /\ selY0 = -1 /\ selX1 = -1 /\ selY1 = -1
    /\ clipboard = <<>>
    /\ lastOp = <<"none">>
    /\ pre = [grid |-> g, gridWidth |-> w, gridHeight |-> h, clipboard |-> <<>>]
    /\ frame = NoFrame

(***************************************************************************)
(* SpecEngine: the engine's functions called on every grid content.        *)
(***************************************************************************)
InitEngine ==
    \E w \in 1..MaxW, h \in 1..MaxH :
        \E g \in AllGrids(w, h) :
            /\ ProgramStart(w, h, g)
            /\ pc = "engine"
            /\ orig = <<>> /\ gen = 0

UpdateGridCall ==
    /\ pc = "engine"
    /\ LET r == updateGrid(grid, nextGrid, gridWidth, gridHeight)
       IN  /\ grid' = r.grid
           /\ nextGrid' = r.nextGrid
    /\ lastOp' = <<"updateGrid">>
    /\ pre' = Snapshot
    /\ UNCHANGED <<gridWidth, gridHeight, simVars, editMode, selVars,
                   clipboard, pc, orig, gen, frame>>

NextEngine == UpdateGridCall

SpecEngine == InitEngine /\ [][NextEngine]_vars

(***************************************************************************)
(* What the claims speak of, stated without the loops of the source.       *)
(***************************************************************************)
InGrid(gw, gh, x, y) == x \in 0..(gw - 1) /\ y \in 0..(gh - 1)
Alive(g, gw, x, y)   == g[y * gw + x] = 1

\* The live Moore neighbours of (x, y) in g, off-grid neighbours absent.
LiveMooreNeighbours(g, gw, gh, x, y) ==
    {p \in ((x - 1)..(x + 1)) \X ((y - 1)..(y + 1)) :
        /\ p # <<x, y>>
        /\ InGrid(gw, gh, p[1], p[2])
        /\ Alive(g, gw, p[1], p[2])}

\* B3/S23 for cell (x, y) of g.
LifeRule(g, gw, gh, x, y) ==
    LET n == Cardinality(LiveMooreNeighbours(g, gw, gh, x, y))
    IN  \/ Alive(g, gw, x, y) /\ n \in {2, 3}
        \/ ~Alive(g, gw, x, y) /\ n = 3

\* C1: after updateGrid every cell of the grid is alive exactly when B3/S23,
\* applied to the grid as it was before the call with off-grid neighbours
\* counted as 0, says so; the dimensions are unchanged.
C1_SynchronousGeneration ==
    lastOp[1] = "updateGrid" =>
        /\ gridWidth = pre.gridWidth /\ gridHeight = pre.gridHeight
        /\ DOMAIN grid = Cells(gridWidth, gridHeight)
        /\ \A x \in 0..(gridWidth - 1), y \in 0..(gridHeight - 1) :
              /\ grid[y * gridWidth + x] \in {0, 1}
              /\ Alive(grid, gridWidth, x, y)
                     <=> LifeRule(pre.grid, gridWidth, gridHeight, x, y)

\* A generation with a birth, a death and a survival, which a pass that
\* wrote into the vector it reads would have computed differently.
C1_Witness ==
    /\ lastOp[1] = "updateGrid"
    /\ \E i \in DOMAIN grid : pre.grid[i] = 0 /\ grid[i] = 1
    /\ \E i \in DOMAIN grid : pre.grid[i] = 1 /\ grid[i] = 0
    /\ \E i \in DOMAIN grid : pre.grid[i] = 1 /\ grid[i] = 1
    /\ updateGridInPlace(pre.grid, nextGrid, gridWidth, gridHeight).grid # grid

Interior(gw, gh) == (1..(gw - 2)) \X (1..(gh - 2))

\* C9: on a grid at least 3 x 3, for every cell not touching the boundary
\* the wrap-around and the bounded countNeighbors agree, and updateGrid
\* gives the cell the same next state under either edge policy.
C9_EdgePolicyEquivalence ==
    (gridWidth >= 3 /\ gridHeight >= 3) =>
        \A bounded \in {updateGrid(grid, nextGrid, gridWidth, gridHeight).grid},
           wrapped \in {updateGridWrap(grid, nextGrid, gridWidth, gridHeight).grid} :
            \A p \in Interior(gridWidth, gridHeight) :
                /\ countNeighborsWrap(grid, gridWidth, gridHeight, p[1], p[2])
                     = countNeighbors(grid, gridWidth, gridHeight, p[1], p[2])
                /\ wrapped[p[2] * gridWidth + p[1]]
                     = bounded[p[2] * gridWidth + p[1]]

\* A grid produced by updateGrid, at least 3 x 3, with a live interior cell
\* that has live neighbours, on which the two policies do differ at a
\* boundary cell.
C9_Witness ==
    /\ lastOp[1] = "updateGrid"
    /\ gridWidth >= 3 /\ gridHeight >= 3
    /\ \E p \in Interior(gridWidth, gridHeight) :
          /\ Alive(grid, gridWidth, p[1], p[2])
          /\ countNeighbors(grid, gridWidth, gridHeight, p[1], p[2]) >= 2
    /\ \E x \in 0..(gridWidth - 1), y \in 0..(gridHeight - 1) :
          countNeighborsWrap(grid, gridWidth, gridHeight, x, y)
             # countNeighbors(grid, gridWidth, gridHeight, x, y)

(***************************************************************************)
(* SpecPattern: updateGrid called repeatedly on a grid whose only live     *)
(* cells are one blinker or one 2 x 2 block, placed anywhere in the grid.  *)
(***************************************************************************)
\* The grid whose live cells are exactly the set `live` of <<x, y>> pairs.
GridOf(gw, gh, live) ==
    [i \in Cells(gw, gh) |-> IF <<i % gw, i \div gw>> \in live THEN 1 ELSE 0]

\* Three cells in a row centred on (cx, cy).
LineCells(cx, cy, horizontal) ==
    IF horizontal THEN {<<cx - 1, cy>>, <<cx, cy>>, <<cx + 1, cy>>}
                  ELSE {<<cx, cy - 1>>, <<cx, cy>>, <<cx, cy + 1>>}

\* The 2 x 2 block whose top-left cell is (bx, by).
BlockCells(bx, by) == {<<bx, by>>, <<bx + 1, by>>, <<bx, by + 1>>, <<bx + 1, by + 1>>}

Fits(gw, gh, live) == \A p \in live : InGrid(gw, gh, p[1], p[2])

\* <<cx, cy, horizontal>> of every blinker that lies inside a gw x gh grid.
Blinkers(gw, gh) ==
    {b \in (0..(gw - 1)) \X (0..(gh - 1)) \X BOOLEAN :
        Fits(gw, gh, LineCells(b[1], b[2], b[3]))}

Blocks(gw, gh) == (0..(gw - 2)) \X (0..(gh - 2))

PatternGrids(gw, gh) ==
    {GridOf(gw, gh, LineCells(b[1], b[2], b[3])) : b \in Blinkers(gw, gh)}
        \cup {GridOf(gw, gh, BlockCells(b[1], b[2])) : b \in Blocks(gw, gh)}

InitPattern ==
    \E w \in 1..MaxPatW, h \in 1..MaxPatH :
        \E g \in PatternGrids(w, h) :
            /\ ProgramStart(w, h, g)
            /\ pc = "pattern"
            /\ orig = g /\ gen = 0

PatternStep ==
    /\ pc = "pattern"
    /\ gen < MaxGen
    /\ LET r == updateGrid(grid, nextGrid, gridWidth, gridHeight)
       IN  /\ grid' = r.grid
           /\ nextGrid' = r.nextGrid
    /\ lastOp' = <<"updateGrid">>
    /\ pre' = Snapshot
    /\ gen' = gen + 1
    /\ UNCHANGED <<gridWidth, gridHeight, simVars, editMode, selVars,
                   clipboard, pc, orig, frame>>

NextPattern == PatternStep

SpecPattern == InitPattern /\ [][NextPattern]_vars

\* C2 as stated: whatever blinker the grid started from, after an odd number
\* of updateGrid calls the grid is the perpendicular three-cell line through
\* the same centre (so not the original), and after an even number, 2
\* included, it is the original again.
C2_BlinkerAnywhere ==
    \A b \in Blinkers(gridWidth, gridHeight) :
        orig = GridOf(gridWidth, gridHeight, LineCells(b[1], b[2], b[3])) =>
            /\ gen % 2 = 1 =>
                  /\ Fits(gridWidth, gridHeight, LineCells(b[1], b[2], ~b[3]))
                  /\ grid = GridOf(gridWidth, gridHeight,
                                   LineCells(b[1], b[2], ~b[3]))
                  /\ grid # orig
            /\ gen % 2 = 0 => grid = orig

\* A blinker whose centre cell is not on the boundary of the grid.
InnerBlinkers(gw, gh) ==
    {b \in Blinkers(gw, gh) : <<b[1], b[2]>> \in Interior(gw, gh)}

\* C2 as amended: the same, for the blinkers whose centre cell is not on the
\* grid's boundary (the perpendicular line then lies inside the grid too).
C2_BlinkerInside ==
    \A b \in InnerBlinkers(gridWidth, gridHeight) :
        orig = GridOf(gridWidth, gridHeight, LineCells(b[1], b[2], b[3])) =>
            /\ gen % 2 = 1 =>
                  /\ grid = GridOf(gridWidth, gridHeight,
                                   LineCells(b[1], b[2], ~b[3]))
                  /\ grid # orig
            /\ gen % 2 = 0 => grid = orig

\* Two calls made on a blinker whose centre is off the boundary, in a grid
\* where it is not the only such blinker.
C2_Witness ==
    /\ gen = 2
    /\ lastOp[1] = "updateGrid"
    /\ gridWidth > 3 /\ gridHeight > 3
    /\ \E b \in InnerBlinkers(gridWidth, gridHeight) :
          /\ orig = GridOf(gridWidth, gridHeight, LineCells(b[1], b[2], b[3]))
          /\ pre.grid = GridOf(gridWidth, gridHeight, LineCells(b[1], b[2], ~b[3]))
          /\ grid = orig

\* C5: a grid whose only live cells are a 2 x 2 block, anywhere in the grid,
\* is the same grid after every number of updateGrid calls.
C5_BlockStillLife ==
    \A b \in Blocks(gridWidth, gridHeight) :
        orig = GridOf(gridWidth, gridHeight, BlockCells(b[1], b[2])) =>
            grid = orig

\* Two successive calls made on a block in the corner of a larger grid.
C5_Witness ==
    /\ gen >= 2
    /\ lastOp[1] = "updateGrid"
    /\ gridWidth > 2 /\ gridHeight > 2
    /\ orig = GridOf(gridWidth, gridHeight, BlockCells(0, 0))
    /\ pre.grid = orig

(***************************************************************************)
(* SpecResize: resizeGrid and resetGrid called on every grid content.      *)
(***************************************************************************)
InitResize ==
    \E w \in 1..SmallW, h \in 1..SmallH :
        \E g \in AllGrids(w, h) :
            /\ ProgramStart(w, h, g)
            /\ pc = "resize"
            /\ orig = <<>> /\ gen = 0

ResizeGridCall(w, h) ==
    /\ pc = "resize"
    /\ LET r == resizeGrid(grid, nextGrid, gridWidth, gridHeight, w, h)
       IN  /\ gridWidth' = r.gridWidth
           /\ gridHeight' = r.gridHeight
           /\ grid' = r.grid
           /\ nextGrid' = r.nextGrid
    /\ lastOp' = <<"resizeGrid", w, h>>
    /\ pre' = Snapshot
    /\ UNCHANGED <<simVars, editMode, selVars, clipboard, pc, orig, gen, frame>>

ResetGridCall ==
    /\ pc = "resize"
    /\ grid' = resetGrid(grid)
    /\ lastOp' = <<"resetGrid">>
    /\ pre' = Snapshot
    /\ UNCHANGED <<gridWidth, gridHeight, nextGrid, simVars, editMode, selVars,
                   clipboard, pc, orig, gen, frame>>

NextResize ==
    \/ \E w \in 1..SmallW, h \in 1..SmallH : ResizeGridCall(w, h)
    \/ ResetGridCall

SpecResize == InitResize /\ [][NextResize]_vars

\* The last call was resizeGrid(w, h) with w, h no larger than the grid was
\* and one of them smaller.
ResizedSmaller ==
    /\ lastOp[1] = "resizeGrid"
    /\ lastOp[2] <= pre.gridWidth /\ lastOp[3] <= pre.gridHeight
    /\ <<lastOp[2], lastOp[3]>> # <<pre.gridWidth, pre.gridHeight>>

\* C3 as stated: after resizing to smaller dimensions w x h the grid is
\* w x h and every cell inside [0,w) x [0,h) has the state it had before.
C3_ResizeKeepsInRange ==
    ResizedSmaller =>
        /\ gridWidth = lastOp[2] /\ gridHeight = lastOp[3]
        /\ DOMAIN grid = Cells(gridWidth, gridHeight)
        /\ \A x \in 0..(gridWidth - 1), y \in 0..(gridHeight - 1) :
              grid[y * gridWidth + x] = pre.grid[y * pre.gridWidth + x]

\* C3 as amended: after resizing to smaller dimensions w x h the grid is
\* w x h (the cells outside are gone) and every cell inside is dead, whatever
\* its state was; the scratch buffer likewise.
C3_ResizeClears ==
    ResizedSmaller =>
        /\ gridWidth = lastOp[2] /\ gridHeight = lastOp[3]
        /\ DOMAIN grid = Cells(gridWidth, gridHeight)
        /\ DOMAIN nextGrid = Cells(gridWidth, gridHeight)
        /\ \A x \in 0..(gridWidth - 1), y \in 0..(gridHeight - 1) :
              /\ grid[y * gridWidth + x] = 0
              /\ nextGrid[y * gridWidth + x] = 0

\* A resize to smaller dimensions of a grid that had a live cell in range.
C3_Witness ==
    /\ ResizedSmaller
    /\ \E x \in 0..(gridWidth - 1), y \in 0..(gridHeight - 1) :
          pre.grid[y * pre.gridWidth + x] = 1
    /\ \E i \in DOMAIN pre.grid : i \notin DOMAIN grid /\ pre.grid[i] = 1

(***************************************************************************)
(* SpecClip: copySelection, then cutSelection on the same rectangle, then  *)
(* pasteClipboard at any target, on every grid content and every           *)
(* normalized selection rectangle inside the grid.                         *)
(***************************************************************************)
InitClip ==
    \E w \in 1..SmallW, h \in 1..SmallH :
        \E g \in AllGrids(w, h) :
            \E x0 \in 0..(w - 1), y0 \in 0..(h - 1) :
                \E x1 \in x0..(w - 1), y1 \in y0..(h - 1) :
                    /\ gridWidth = w /\ gridHeight = h
                    /\ grid = g /\ nextGrid = DeadGrid(w, h)
                    /\ running = FALSE /\ stepOnce = FALSE
                    /\ speed = InitSpeed /\ accumulator = 0
                    /\ editMode = "Copy"
                    /\ selX0 = x0 /\ selY0 = y0 /\ selX1 = x1 /\ selY1 = y1
                    /\ clipboard = <<>>
                    /\ pc = "select"
                    /\ lastOp = <<"none">>
                    /\ pre = [grid |-> g, gridWidth |-> w, gridHeight |-> h,
                              clipboard |-> <<>>]
                    /\ orig = g /\ gen = 0
                    /\ frame = NoFrame

CopySelectionCall ==
    /\ pc = "select"
    /\ clipboard' = copySelection(grid, gridWidth, selX0, selY0, selX1, selY1)
    /\ pc' = "copied"
    /\ lastOp' = <<"copySelection", selX0, selY0, selX1, selY1>>
    /\ pre' = Snapshot
    /\ UNCHANGED <<engineVars, simVars, editMode, selVars, orig, gen, frame>>

CutSelectionCall ==
    /\ pc = "copied"
    /\ LET r == cutSelection(grid, gridWidth, selX0, selY0, selX1, selY1)
       IN  /\ clipboard' = r.clipboard
           /\ grid' = r.grid
    /\ pc' = "cut"
    /\ lastOp' = <<"cutSelection", selX0, selY0, selX1, selY1>>
    /\ pre' = Snapshot
    /\ UNCHANGED <<gridWidth, gridHeight, nextGrid, simVars, editMode, selVars,
                   orig, gen, frame>>

PasteClipboardCall(tx, ty) ==
    /\ pc = "cut"
    /\ LET r == pasteClipboard(grid, gridWidth, gridHeight, clipboard, tx, ty)
       IN  /\ grid' = r.grid
           /\ editMode' = r.editMode
    /\ pc' = "pasted"
    /\ lastOp' = <<"pasteClipboard", tx, ty>>
    /\ pre' = Snapshot
    /\ UNCHANGED <<gridWidth, gridHeight, nextGrid, simVars, selVars,
                   clipboard, orig, gen, frame>>

NextClip ==
    \/ CopySelectionCall
    \/ CutSelectionCall
    \/ \E tx \in -1..(gridWidth - 1), ty \in -1..(gridHeight - 1) :
           PasteClipboardCall(tx, ty)

SpecClip == InitClip /\ [][NextClip]_vars

\* C4: after copySelection, cutSelection on the same rectangle and
\* pasteClipboard(selX0, selY0), the grid is the grid the copy started from:
\* every cell, inside the rectangle and outside it, has its old state.
C4_CopyCutPasteRoundTrip ==
    (pc = "pasted" /\ lastOp = <<"pasteClipboard", selX0, selY0>>) =>
        /\ DOMAIN grid = DOMAIN orig
        /\ \A x \in 0..(gridWidth - 1), y \in 0..(gridHeight - 1) :
              grid[y * gridWidth + x] = orig[y * gridWidth + x]

\* A round trip over a rectangle that does not start at the grid's origin,
\* holds a live and a dead cell and leaves a live cell outside; the cut had
\* emptied the rectangle.
C4_Witness ==
    /\ pc = "pasted" /\ lastOp = <<"pasteClipboard", selX0, selY0>>
    /\ selX0 > 0
    /\ \E x \in selX0..selX1, y \in selY0..selY1 : orig[y * gridWidth + x] = 1
    /\ \E x \in selX0..selX1, y \in selY0..selY1 : orig[y * gridWidth + x] = 0
    /\ \E x \in 0..(selX0 - 1), y \in 0..(gridHeight - 1) :
          orig[y * gridWidth + x] = 1
    /\ \A x \in selX0..selX1, y \in selY0..selY1 : pre.grid[y * gridWidth + x] = 0

\* The cells a paste of clip at (tx, ty) lands on inside a gw x gh grid.
Landed(clip, gw, gh, tx, ty) ==
    {c \in {<<tx + clip[k][1], ty + clip[k][2]>> : k \in 1..Len(clip)} :
        InGrid(gw, gh, c[1], c[2])}

\* C6: after pasteClipboard(tx, ty) a cell is alive exactly when it was alive
\* before or a clipboard offset landed on it inside the grid; offsets that
\* land outside touch nothing; the clipboard and the dimensions are as before.
C6_PasteFrame ==
    lastOp[1] = "pasteClipboard" =>
        /\ clipboard = pre.clipboard
        /\ gridWidth = pre.gridWidth /\ gridHeight = pre.gridHeight
        /\ DOMAIN grid = Cells(gridWidth, gridHeight)
        /\ \A landed \in {Landed(pre.clipboard, gridWidth, gridHeight,
                                  lastOp[2], lastOp[3])} :
              \A x \in 0..(gridWidth - 1), y \in 0..(gridHeight - 1) :
                  /\ grid[y * gridWidth + x] \in {0, 1}
                  /\ Alive(grid, gridWidth, x, y) <=>
                        \/ Alive(pre.grid, gridWidth, x, y)
                        \/ <<x, y>> \in landed

\* A paste with an entry that landed outside the grid, one that landed on a
\* dead cell, and a live cell no entry landed on.
C6_Witness ==
    /\ lastOp[1] = "pasteClipboard"
    /\ \E k \in 1..Len(clipboard) :
          ~InGrid(gridWidth, gridHeight,
                  lastOp[2] + clipboard[k][1], lastOp[3] + clipboard[k][2])
    /\ \E c \in Landed(clipboard, gridWidth, gridHeight, lastOp[2], lastOp[3]) :
          pre.grid[c[2] * gridWidth + c[1]] = 0
    /\ \E x \in 0..(gridWidth - 1), y \in 0..(gridHeight - 1) :
          /\ pre.grid[y * gridWidth + x] = 1
          /\ <<x, y>> \notin Landed(clipboard, gridWidth, gridHeight,
                                   lastOp[2], lastOp[3])

(***************************************************************************)
(* The frame loop, one action per section of the loop body:                *)
(*   "time" -> "controls" -> "editing" -> "simulation" -> "time" ...       *)
(* Rendering changes no state.  An access outside a vector is undefined    *)
(* behaviour: the model then stops at pc = "undefined", which stands for   *)
(* every outcome the build can produce.                                    *)
(***************************************************************************)
InitLoop(w, h) ==
    /\ ProgramStart(w, h, resizeGrid(<<>>, <<>>, 0, 0, w, h).grid)
    /\ pc = "time"
    /\ orig = <<>> /\ gen = 0

\* Lines 216-219: accumulator += dt.
TimePhase(dt) ==
    /\ pc = "time"
    /\ accumulator + dt <= MaxAcc
    /\ accumulator' = accumulator + dt
    /\ pc' = "controls"
    /\ frame' = NoFrame
    /\ lastOp' = <<"none">>
    /\ UNCHANGED <<engineVars, running, stepOnce, speed, editMode, selVars,
                   clipboard, pre, orig, gen>>

\* Lines 226-260: the buttons in `clicked` report a click this frame and the
\* slider leaves `spd` in speed; the handlers run in the source's order.
ControlsPhase(clicked, spd) ==
    /\ pc = "controls"
    /\ running' = IF "StartPause" \in clicked THEN ~running ELSE running
    /\ stepOnce' = IF "Step" \in clicked THEN TRUE ELSE stepOnce
    /\ grid' = IF "Reset" \in clicked THEN resetGrid(grid) ELSE grid
    /\ editMode' =
          IF "Paste" \in clicked /\ clipboard # <<>> THEN "Paste"
          ELSE IF "Cut" \in clicked THEN "Cut"
          ELSE IF "Copy" \in clicked THEN "Copy"
          ELSE editMode
    /\ speed' = spd
    /\ pc' = "editing"
    /\ frame' = [frame EXCEPT !.stepReq = "Step" \in clicked,
                              !.runAtReq = running']
    /\ UNCHANGED <<gridWidth, gridHeight, nextGrid, accumulator, selVars,
                   clipboard, lastOp, pre, orig, gen>>

\* Lines 279-298: EditMode::Copy and EditMode::Cut.
EditSelect(cell, leftDown) ==
    IF leftDown /\ selX0 < 0 /\ cell.inGrid
    THEN /\ selX0' = cell.cx /\ selY0' = cell.cy
         /\ selX1' = cell.cx /\ selY1' = cell.cy
         /\ pc' = "simulation"
         /\ UNCHANGED <<grid, clipboard, editMode, lastOp>>
    ELSE IF leftDown /\ selX0 >= 0
    THEN /\ selX1' = cell.cx /\ selY1' = cell.cy
         /\ pc' = "simulation"
         /\ UNCHANGED <<selX0, selY0, grid, clipboard, editMode, lastOp>>
    ELSE IF ~leftDown /\ selX0 >= 0
    THEN \* finalize: the two std::swap, then copySelection or cutSelection
         LET x0 == IF selX1 < selX0 THEN selX1 ELSE selX0
             x1 == IF selX1 < selX0 THEN selX0 ELSE selX1
             y0 == IF selY1 < selY0 THEN selY1 ELSE selY0
             y1 == IF selY1 < selY0 THEN selY0 ELSE selY1
         IN  /\ lastOp' = <<(IF editMode = "Copy" THEN "copySelection"
                                                 ELSE "cutSelection"),
                            x0, y0, x1, y1>>
             /\ IF SelectionIndices(gridWidth, x0, y0, x1, y1) \subseteq DOMAIN grid
                THEN /\ IF editMode = "Copy"
                        THEN /\ clipboard' = copySelection(grid, gridWidth,
                                                           x0, y0, x1, y1)
                             /\ grid' = grid
                        ELSE LET r == cutSelection(grid, gridWidth, x0, y0, x1, y1)
                             IN  /\ clipboard' = r.clipboard
                                 /\ grid' = r.grid
                     /\ selX0' = -1 /\ selY0' = -1 /\ selX1' = -1 /\ selY1' = -1
                     /\ editMode' = "None"
                     /\ pc' = "simulation"
                ELSE /\ pc' = "undefined"
                     /\ selX0' = x0 /\ selY0' = y0 /\ selX1' = x1 /\ selY1' = y1
                     /\ UNCHANGED <<grid, clipboard, editMode>>
    ELSE /\ pc' = "simulation"
         /\ UNCHANGED <<selVars, grid, clipboard, editMode, lastOp>>

\* Lines 299-304: EditMode::Paste.
EditPaste(cell, leftDown) ==
    IF leftDown /\ cell.inGrid
    THEN LET r == pasteClipboard(grid, gridWidth, gridHeight, clipboard,
                                 cell.cx, cell.cy)
         IN  /\ grid' = r.grid
             /\ editMode' = r.editMode
             /\ lastOp' = <<"pasteClipboard", cell.cx, cell.cy>>
             /\ pc' = "simulation"
             /\ UNCHANGED <<selVars, clipboard>>
    ELSE /\ pc' = "simulation"
         /\ UNCHANGED <<selVars, grid, clipboard, editMode, lastOp>>

\* Lines 313-322: EditMode::None draws with the left button and erases with
\* the right one.
EditDraw(cell, leftDown, rightDown) ==
    /\ grid' = IF leftDown /\ cell.inGrid
               THEN [grid EXCEPT ![cell.cy * gridWidth + cell.cx] = 1]
               ELSE IF rightDown /\ cell.inGrid
               THEN [grid EXCEPT ![cell.cy * gridWidth + cell.cx] = 0]
               ELSE grid
    /\ pc' = "simulation"
    /\ UNCHANGED <<selVars, clipboard, editMode, lastOp>>

\* Lines 262-324: the cursor is at pixel (mx, my), the buttons are down or
\* not, and ImGui wants the mouse (it is over the Controls window) or not.
EditingPhase(mx, my, leftDown, rightDown, wantCapture) ==
    /\ pc = "editing"
    /\ LET cell == mouseToCell(mx, my, CellSize, gridWidth, gridHeight)
       IN  IF wantCapture
           THEN /\ pc' = "simulation"
                /\ UNCHANGED <<selVars, grid, clipboard, editMode, lastOp>>
           ELSE IF editMode \in {"Copy", "Cut"} THEN EditSelect(cell, leftDown)
           ELSE IF editMode = "Paste" THEN EditPaste(cell, leftDown)
           ELSE EditDraw(cell, leftDown, rightDown)
    /\ UNCHANGED <<gridWidth, gridHeight, nextGrid, simVars, pre, orig, gen, frame>>

\* Lines 326-330, then rendering and the next iteration.
SimulationPhase ==
    /\ pc = "simulation"
    /\ LET r == simulationUpdate(grid, nextGrid, gridWidth, gridHeight,
                                 running, stepOnce, accumulator, speed)
       IN  /\ grid' = r.grid
           /\ nextGrid' = r.nextGrid
           /\ accumulator' = r.accumulator
           /\ stepOnce' = r.stepOnce
           /\ frame' = [frame EXCEPT !.updates = r.updates,
                                     !.accAtSim = accumulator]
    /\ pc' = "time"
    /\ UNCHANGED <<gridWidth, gridHeight, running, speed, editMode, selVars,
                   clipboard, lastOp, pre, orig, gen>>

\* The inputs of the simulation specification: the Start/Pause, Step and
\* Reset buttons, the speed slider, and the cursor on a cell or off the grid.
Speeds == {5, 10, 20}
SimClicks == SUBSET {"StartPause", "Step", "Reset"}
CellPixels(n) == {c * CellSize : c \in 0..n}

NextSim ==
    \/ \E dt \in 0..MaxDt : TimePhase(dt)
    \/ \E clicked \in SimClicks : ControlsPhase(clicked, speed)
    \/ \E spd \in Speeds : ControlsPhase({}, spd)
    \/ \E mx \in CellPixels(gridWidth), my \in CellPixels(gridHeight),
          leftDown \in BOOLEAN, rightDown \in BOOLEAN :
           EditingPhase(mx, my, leftDown, rightDown, FALSE)
    \/ SimulationPhase

InitSim == InitLoop(SimW, SimH)

SpecSim == InitSim /\ [][NextSim]_vars

\* C7: a frame in which the Step button was clicked ends with updateGrid
\* called exactly once in it, the request cleared, and running as it was
\* when the request was made, whether that is FALSE (Idle) or TRUE (Running).
C7_StepFiresOnce ==
    (pc = "time" /\ frame.stepReq) =>
        /\ frame.updates = 1
        /\ stepOnce = FALSE
        /\ running = frame.runAtReq

\* The end of a frame with a Step request made while Idle and with no
\* generation due, whose updateGrid call ran on a grid with a live cell.
C7_Witness ==
    /\ pc = "time" /\ frame.stepReq
    /\ ~running
    /\ ~GenerationDue(frame.accAtSim, speed)
    /\ frame.updates = 1
    /\ \E i \in DOMAIN nextGrid : nextGrid[i] = 1

\* What C8 says of one step of the loop.
C8_Step ==
    /\ frame'.updates <= 1
    /\ pc = "simulation" =>
          /\ (running /\ GenerationDue(accumulator, speed)) =>
                /\ frame'.updates = 1
                /\ accumulator' = 0
                /\ \A x \in 0..(gridWidth - 1), y \in 0..(gridHeight - 1) :
                      Alive(grid', gridWidth, x, y)
                          <=> LifeRule(grid, gridWidth, gridHeight, x, y)
          /\ (running /\ ~GenerationDue(accumulator, speed) /\ ~stepOnce) =>
                /\ frame'.updates = 0
                /\ accumulator' = accumulator
                /\ grid' = grid
          /\ (~running /\ ~stepOnce) =>
                /\ frame'.updates = 0
                /\ grid' = grid
    /\ grid' # grid =>
          \/ pc \in {"controls", "editing"}
          \/ pc = "simulation" /\ frame'.updates = 1

\* C8: every frame calls updateGrid at most once; while Running a due
\* generation (accumulator >= 1/speed) is computed and the accumulator is
\* then 0, whatever time it held; while Running with no generation due, or
\* Idle, and no Step request pending, updateGrid is not called; and the
\* grid changes only in the Controls and Editing sections or by that call.
C8_OneGenerationPerFrame == [][C8_Step]_vars

\* The end of a frame, Running and without a Step request, in which the
\* accumulator held at least two generations' worth of time: one call was
\* made and the accumulator is 0.
C8_Witness ==
    /\ pc = "time"
    /\ running /\ ~frame.stepReq
    /\ frame.accAtSim * speed >= 2 * TicksPerSecond
    /\ frame.updates = 1
    /\ accumulator = 0

(***************************************************************************)
(* SpecSelect: the frame loop under the Copy, Cut and Paste buttons and    *)
(* the mouse anywhere, on the grid or off it.                              *)
(***************************************************************************)
SelectClicks == SUBSET {"Copy", "Cut", "Paste"}
MousePixels(n) == {-CellSize, -1} \cup CellPixels(n)

NextSelect ==
    \/ TimePhase(0)
    \/ \E clicked \in SelectClicks : ControlsPhase(clicked, speed)
    \/ \E mx \in MousePixels(gridWidth), my \in MousePixels(gridHeight),
          leftDown \in BOOLEAN, rightDown \in BOOLEAN, wantCapture \in BOOLEAN :
           EditingPhase(mx, my, leftDown, rightDown, wantCapture)
    \/ SimulationPhase

InitSelect == InitLoop(LoopW, LoopH)

SpecSelect == InitSelect /\ [][NextSelect]_vars

\* C10: whenever the frame loop has called copySelection or cutSelection,
\* the rectangle it was called on was normalized and inside the grid, and
\* no index it used was outside the grid vector.
C10_SelectionInsideGrid ==
    /\ pc # "undefined"
    /\ lastOp[1] \in {"copySelection", "cutSelection"} =>
          /\ 0 <= lastOp[2] /\ lastOp[2] <= lastOp[4] /\ lastOp[4] < gridWidth
          /\ 0 <= lastOp[3] /\ lastOp[3] <= lastOp[5] /\ lastOp[5] < gridHeight

====
